---------------------------- MODULE Spec2Model ----------------------------
(* The Menu primitive of @headlessui-react (components/menu/menu.tsx):     *)
(* the reducer (OpenMenu, CloseMenu, GoToItem, Search, ClearSearch,        *)
(* RegisterItem, UnregisterItem) and the event handlers of Menu.Button,    *)
(* Menu.Items and Menu.Item that dispatch to it.                           *)
(*                                                                         *)
(* Indices are 0-based as in the source; a sequence s is read at s[i + 1]. *)
EXTENDS Integers, Sequences, FiniteSets, TLC

(***************************************************************************)
(* Bounds of the model.                                                    *)
(***************************************************************************)
\* Longest collection the reducer specification builds.
MaxItems == 3
\* Longest search query the reducer specification accumulates.
MaxQuery == 2

(***************************************************************************)
(* Values.                                                                 *)
(***************************************************************************)
\* activeItemIndex: number | null
Null == -2
\* Array.prototype.findIndex / indexOf: "no such element"
NotFound == -1

\* The Item components of the application, named by their useId() ids.
ItemIds == {1, 2, 3}

\* textContent of each Item's element.
textContent ==
  [id \in ItemIds |->
     CASE id = 1 -> <<"P", "i", "c", "k", "u", "p">>
       [] id = 2 -> <<"H", "o", "m", "e", " ", "d", "e", "l", "i", "v", "e", "r", "y">>
       [] id = 3 -> <<"D", "i", "n", "e", " ", "i", "n">>]

\* String.prototype.toLowerCase on one character of the alphabet in use.
LowerChar(c) ==
  CASE c = "P" -> "p"
    [] c = "H" -> "h"
    [] c = "D" -> "d"
    [] c = "O" -> "o"
    [] OTHER -> c

toLowerCase(str) == [i \in 1..Len(str) |-> LowerChar(str[i])]

\* bag.current.textValue = document.getElementById(id)?.textContent?.toLowerCase()
textValue(id) == toLowerCase(textContent[id])

\* String.prototype.startsWith
startsWith(str, prefix) ==
  /\ Len(prefix) <= Len(str)
  /\ SubSeq(str, 1, Len(prefix)) = prefix

\* action.value of the Search actions the reducer specification dispatches.
Chars == {"h", "H"}

Focus == {"First", "Previous", "Next", "Last", "Specific", "Nothing"}

VARIABLES
  state,      \* StateDefinition: menuState, items, searchQuery, activeItemIndex
  disabled,   \* each Item's `disabled` prop, copied to its bag (dataRef.current)
  timers,     \* number of pending timeouts held by Items' searchDisposables
  frames,     \* pending nextFrame callbacks, oldest first
  activeElement, \* document.activeElement: the element holding DOM focus
  clicked,    \* the Items whose onClick ran in the last step, in call order
  last,       \* the type of the action dispatched, or the handler run, by the last step
              \* ("Other" for the steps that no property tells apart)
  radio,      \* the RadioGroup of the radio-group tests: value, focus, notifications
  mounted     \* the Menu, with its Button and Items, is in the tree

vars == <<state, disabled, timers, frames, activeElement, clicked, last, radio,
         mounted>>

(***************************************************************************)
(* Array helpers, 0-based.                                                 *)
(***************************************************************************)
\* The indices of an array.
Indices(arr) == 0..(Len(arr) - 1)

\* Array.prototype.findIndex, given the set of indices whose element passes
\* the test: the lowest of them, or -1.
findIndex(hits) ==
  IF hits = {} THEN NotFound
  ELSE CHOOSE i \in hits : \A j \in hits : i <= j

\* The same search from the end of the array: the highest index, or -1.
findLastIndex(hits) ==
  IF hits = {} THEN NotFound
  ELSE CHOOSE i \in hits : \A j \in hits : i >= j

\* nextItems.splice(idx, 1): the array without the element at idx.
splice(arr, idx) ==
  [i \in 1..(Len(arr) - 1) |-> IF i <= idx THEN arr[i] ELSE arr[i + 1]]

(***************************************************************************)
(* calculateActiveIndex (utils/calculate-active-index), the Active-Index   *)
(* Resolver.  `action` is [focus |-> ..., id |-> ...].                     *)
(***************************************************************************)
\* resolveDisabled that takes every item for enabled.
resolveDisabled_Never(item) == FALSE

\* resolveDisabled: item => item.dataRef.current.disabled
resolveDisabled(item) == disabled[item]

\* Indices of the items that are not disabled.
EnabledIndices(items) == {i \in Indices(items) : ~resolveDisabled(items[i + 1])}

\* Next: the first non-disabled index met scanning forward cyclically from
\* the index after `current`, at most Len(items) steps.
ScanNext(items, current) ==
  LET n     == Len(items)
      steps == {k \in 1..n : ~resolveDisabled(items[((current + k) % n) + 1])}
  IN  IF steps = {} THEN NotFound
      ELSE (current + (CHOOSE k \in steps : \A j \in steps : k <= j)) % n

\* Previous: the same scan backward.
ScanPrevious(items, current) ==
  LET n     == Len(items)
      steps == {k \in 1..n : ~resolveDisabled(items[((current - k + n) % n) + 1])}
  IN  IF steps = {} THEN NotFound
      ELSE (current - (CHOOSE k \in steps : \A j \in steps : k <= j) + n) % n

\* The resolver without the tie-break: Next and Previous from a null index
\* scan from index 0 as from any other index.
calculateActiveIndex_NoTieBreak(action, items, currentActiveIndex) ==
  LET first == findIndex(EnabledIndices(items))
      lastI == findLastIndex(EnabledIndices(items))
      from  == IF currentActiveIndex = Null THEN 0 ELSE currentActiveIndex
      orNull(i)      == IF i = NotFound THEN Null ELSE i
      orUnchanged(i) == IF i = NotFound THEN currentActiveIndex ELSE i
  IN  CASE action.focus = "First" -> orNull(first)
        [] action.focus = "Last" -> orNull(lastI)
        [] action.focus = "Next" -> orUnchanged(ScanNext(items, from))
        [] action.focus = "Previous" -> orUnchanged(ScanPrevious(items, from))
        [] action.focus = "Specific" ->
             LET idx == findIndex({i \in Indices(items) : items[i + 1] = action.id})
             IN  IF idx = NotFound \/ resolveDisabled(items[idx + 1])
                 THEN currentActiveIndex
                 ELSE idx
        [] action.focus = "Nothing" -> Null

calculateActiveIndex(action, items, currentActiveIndex) ==
  LET first == findIndex(EnabledIndices(items))
      lastI == findLastIndex(EnabledIndices(items))
      orNull(i)      == IF i = NotFound THEN Null ELSE i
      orUnchanged(i) == IF i = NotFound THEN currentActiveIndex ELSE i
  IN  CASE action.focus = "First" -> orNull(first)
        [] action.focus = "Last" -> orNull(lastI)
        [] action.focus = "Next" ->
             IF currentActiveIndex = Null THEN orNull(first)
             ELSE orUnchanged(ScanNext(items, currentActiveIndex))
        [] action.focus = "Previous" ->
             IF currentActiveIndex = Null THEN orNull(lastI)
             ELSE orUnchanged(ScanPrevious(items, currentActiveIndex))
        [] action.focus = "Specific" ->
             LET idx == findIndex({i \in Indices(items) : items[i + 1] = action.id})
             IN  IF idx = NotFound \/ resolveDisabled(items[idx + 1])
                 THEN currentActiveIndex
                 ELSE idx
        [] action.focus = "Nothing" -> Null

(***************************************************************************)
(* reducers: pure functions from a StateDefinition (and an action) to a    *)
(* StateDefinition.                                                        *)
(***************************************************************************)
\* The menu closed with the active index left as it was.
CloseMenu_KeepActive(s) ==
  IF s.menuState = "Closed" THEN s
  ELSE [s EXCEPT !.menuState = "Closed"]

CloseMenu(s) ==
  IF s.menuState = "Closed" THEN s
  ELSE [s EXCEPT !.activeItemIndex = Null, !.menuState = "Closed"]

\* A toggle in place of OpenMenu.
OpenMenu_Toggle(s) ==
  IF s.menuState = "Open" THEN [s EXCEPT !.menuState = "Closed"]
  ELSE [s EXCEPT !.menuState = "Open"]

OpenMenu(s) ==
  IF s.menuState = "Open" THEN s
  ELSE [s EXCEPT !.menuState = "Open"]

\* The fast path taken when either test passes (|| for &&).
GoToItem_EitherTest(s, action) ==
  LET activeItemIndex == calculateActiveIndex(action, s.items, s.activeItemIndex)
  IN  IF s.searchQuery = <<>> \/ s.activeItemIndex = activeItemIndex THEN s
      ELSE [s EXCEPT !.searchQuery = <<>>, !.activeItemIndex = activeItemIndex]

GoToItem(s, action) ==
  LET activeItemIndex == calculateActiveIndex(action, s.items, s.activeItemIndex)
  IN  IF s.searchQuery = <<>> /\ s.activeItemIndex = activeItemIndex THEN s
      ELSE [s EXCEPT !.searchQuery = <<>>, !.activeItemIndex = activeItemIndex]

\* The match taken without the test of the disabled flag.
Search_IgnoreDisabled(s, action) ==
  LET searchQuery == s.searchQuery \o <<action.value>>
      match == findIndex({i \in Indices(s.items) :
                            startsWith(textValue(s.items[i + 1]), searchQuery)})
  IN  IF match = NotFound \/ match = s.activeItemIndex
      THEN [s EXCEPT !.searchQuery = searchQuery]
      ELSE [s EXCEPT !.searchQuery = searchQuery, !.activeItemIndex = match]

Search(s, action) ==
  LET searchQuery == s.searchQuery \o <<action.value>>
      match == findIndex({i \in Indices(s.items) :
                            /\ startsWith(textValue(s.items[i + 1]), searchQuery)
                            /\ ~disabled[s.items[i + 1]]})
  IN  IF match = NotFound \/ match = s.activeItemIndex
      THEN [s EXCEPT !.searchQuery = searchQuery]
      ELSE [s EXCEPT !.searchQuery = searchQuery, !.activeItemIndex = match]

\* ClearSearch that keeps the query.
ClearSearch_Keep(s) == s

ClearSearch(s) ==
  IF s.searchQuery = <<>> THEN s
  ELSE [s EXCEPT !.searchQuery = <<>>]

\* The new entry put at the head of the collection.
RegisterItem_Prepend(s, action) ==
  [s EXCEPT !.items = <<action.id>> \o s.items]

RegisterItem(s, action) ==
  [s EXCEPT !.items = Append(s.items, action.id)]

\* The numeric index kept as it was when another entry is removed.
UnregisterItem_StaleIndex(s, action) ==
  LET idx == findIndex({i \in Indices(s.items) : s.items[i + 1] = action.id})
      nextItems == IF idx # NotFound THEN splice(s.items, idx) ELSE s.items
  IN  [s EXCEPT !.items = nextItems,
                !.activeItemIndex =
                   IF idx = s.activeItemIndex THEN Null ELSE s.activeItemIndex]

\* The entries of `items` are distinct objects (RegisterItem builds a new one
\* for every entry), so within one call an entry's identity is its position
\* in state.items: entry k of nextItems after the splice is the object that
\* was at position origin[k] before it.
UnregisterItem(s, action) ==
  LET idx    == findIndex({i \in Indices(s.items) : s.items[i + 1] = action.id})
      nextItems == IF idx # NotFound THEN splice(s.items, idx) ELSE s.items
      origin == [k \in Indices(nextItems) |->
                   IF idx # NotFound /\ k >= idx THEN k + 1 ELSE k]
      \* nextItems.indexOf(currentActiveItem)
      indexOf == findIndex({k \in Indices(nextItems) : origin[k] = s.activeItemIndex})
  IN  [s EXCEPT !.items = nextItems,
                !.activeItemIndex =
                   IF idx = s.activeItemIndex THEN Null
                   ELSE IF s.activeItemIndex = Null THEN Null
                   ELSE indexOf]

\* state.items[state.activeItemIndex]: the item the active index points at.
ActiveItem(s) == s.items[s.activeItemIndex + 1]

\* stateReducer: match(action.type, reducers, state, action)
stateReducer(s, action) ==
  CASE action.type = "OpenMenu" -> OpenMenu(s)
    [] action.type = "CloseMenu" -> CloseMenu(s)
    [] action.type = "GoToItem" -> GoToItem(s, action)
    [] action.type = "Search" -> Search(s, action)
    [] action.type = "ClearSearch" -> ClearSearch(s)
    [] action.type = "RegisterItem" -> RegisterItem(s, action)
    [] action.type = "UnregisterItem" -> UnregisterItem(s, action)

(***************************************************************************)
(* Actions (type Actions).  Fields an action type does not carry hold the  *)
(* defaults below.                                                         *)
(***************************************************************************)
Action(type) == [type |-> type, focus |-> "", id |-> 0, value |-> ""]

GoToItemAction(focus, id) ==
  [Action("GoToItem") EXCEPT !.focus = focus,
                             !.id = IF focus = "Specific" THEN id ELSE 0]
SearchAction(value) == [Action("Search") EXCEPT !.value = value]
RegisterItemAction(id) == [Action("RegisterItem") EXCEPT !.id = id]
UnregisterItemAction(id) == [Action("UnregisterItem") EXCEPT !.id = id]

(***************************************************************************)
(* RadioGroup, as the radio-group tests render and drive it: the options   *)
(* Pickup, Home delivery and Dine in between a Before and an After button, *)
(* v-model bound to a ref that a watcher reports to changeFn.              *)
(***************************************************************************)
\* Most changeFn calls counted (expect(changeFn).toHaveBeenCalledTimes).
MaxCalls == 3

\* The `value` props of the RadioGroupOptions, in document order.
RadioOptions == <<"pickup", "home-delivery", "dine-in">>

RadioValues == {RadioOptions[i] : i \in 1..Len(RadioOptions)}

\* 0-based position of the option with the value `v`.
OptionIndex(v) == CHOOSE i \in Indices(RadioOptions) : RadioOptions[i + 1] = v

\* radio.value: the ref bound with v-model ("undefined" for ref()).
\* radio.focus: document.activeElement, a button or the option of a value.
\* radio.changed: the arguments of the changeFn calls of the last step.
\* radio.calls: the number of changeFn calls so far.
\* radio.streak: the option the last step activated (click or Space), "" if
\*   it activated none, and the changeFn calls over the run of consecutive
\*   activations of that option.
RadioInitial ==
  [value |-> "undefined", focus |-> "Before", changed |-> <<>>, calls |-> 0,
   streak |-> [option |-> "", calls |-> 0]]

\* The first option tabbable whatever is selected.
Tabbable_First(value) == RadioOptions[1]

\* The one option with tabindex 0: the selected one, the first one when no
\* option is selected.
Tabbable(value) == IF value \in RadioValues THEN value ELSE RadioOptions[1]

\* A change that notifies even when the value stays the same.
change_Always(r, v) ==
  [r EXCEPT !.value = v, !.changed = <<v>>, !.calls = @ + 1]

\* Selecting the option with the value `v`: the bound ref is written and its
\* watcher calls changeFn when the value differs from the selected one,
\* otherwise nothing happens.
change(r, v) ==
  IF r.value = v THEN [r EXCEPT !.changed = <<>>]
  ELSE [r EXCEPT !.value = v, !.changed = <<v>>, !.calls = @ + 1]

\* The streak after a step that activated the option `v` and left `r`.
Activated(r, v) ==
  [r EXCEPT !.streak =
     [option |-> v,
      calls  |-> (IF radio.streak.option = v THEN radio.streak.calls ELSE 0)
                 + Len(r.changed)]]

\* The record after a step that activated no option.
NotActivated(r) == [r EXCEPT !.streak = [option |-> "", calls |-> 0]]

\* A neighbour that stops at the ends instead of wrapping around.
Neighbour_NoWrap(v, step) ==
  LET i == OptionIndex(v) + step
  IN  IF i \in Indices(RadioOptions) THEN RadioOptions[i + 1] ELSE v

\* The option after (step 1) or before (step -1) the focused one, cyclically.
Neighbour(v, step) ==
  RadioOptions[((OptionIndex(v) + step + Len(RadioOptions)) % Len(RadioOptions)) + 1]

\* press(Keys.Tab) or press(shift(Keys.Tab)): focus moves along the tab
\* order Before, the tabbable option, After.
RadioTabOn(shift) ==
  LET to == CASE radio.focus = "Before" /\ ~shift -> Tabbable(radio.value)
              [] radio.focus = "After" /\ shift -> Tabbable(radio.value)
              [] radio.focus \in RadioValues /\ ~shift -> "After"
              [] radio.focus \in RadioValues /\ shift -> "Before"
              [] OTHER -> radio.focus
  IN  /\ to # radio.focus
      /\ radio' = NotActivated([radio EXCEPT !.focus = to, !.changed = <<>>])
      /\ last' = "RadioTab"
      /\ UNCHANGED <<state, disabled, timers, frames, activeElement, clicked, mounted>>

RadioTab == \E shift \in BOOLEAN : RadioTabOn(shift)

\* getByText('After')?.focus(): a button outside the group is focused.
RadioFocusButton ==
  \E button \in {"Before", "After"} :
    /\ button # radio.focus
    /\ radio' = NotActivated([radio EXCEPT !.focus = button, !.changed = <<>>])
    /\ last' = "RadioFocusButton"
    /\ UNCHANGED <<state, disabled, timers, frames, activeElement, clicked, mounted>>

\* click(getByText(...)) on the option with the value `v`.
RadioClickOn(v) ==
  /\ radio' = Activated(change([radio EXCEPT !.focus = v], v), v)
  /\ last' = "RadioClick"
  /\ UNCHANGED <<state, disabled, timers, frames, activeElement, clicked, mounted>>

RadioClick ==
  \E v \in RadioValues :
    /\ change(radio, v).calls <= MaxCalls
    /\ RadioClickOn(v)

\* press(key) while an option has focus.
RadioKeyDownOn(key) ==
  /\ radio.focus \in RadioValues
  /\ radio' =
       CASE key \in {"ArrowUp", "ArrowLeft"} ->
              LET to == Neighbour(radio.focus, -1)
              IN  NotActivated(change([radio EXCEPT !.focus = to], to))
         [] key \in {"ArrowDown", "ArrowRight"} ->
              LET to == Neighbour(radio.focus, 1)
              IN  NotActivated(change([radio EXCEPT !.focus = to], to))
         [] key = " " -> Activated(change(radio, radio.focus), radio.focus)
  /\ last' = "RadioKeyDown"
  /\ UNCHANGED <<state, disabled, timers, frames, activeElement, clicked, mounted>>

RadioKeys == {"ArrowUp", "ArrowLeft", "ArrowDown", "ArrowRight", " "}

RadioKeyDown ==
  \E key \in RadioKeys :
    /\ key # " " => radio.calls < MaxCalls
    /\ key = " " => change(radio, radio.focus).calls <= MaxCalls
    /\ RadioKeyDownOn(key)

(***************************************************************************)
(* The reducer on its own: useReducer(stateReducer, initial) driven by any *)
(* sequence of dispatched actions, the items' bags written at any time.    *)
(***************************************************************************)
\* The initial state handed to useReducer.
InitialState ==
  [menuState |-> "Closed", items |-> <<>>, searchQuery |-> <<>>,
   activeItemIndex |-> Null]

Init ==
  /\ state = InitialState
  /\ disabled = [id \in ItemIds |-> FALSE]
  /\ timers = 0
  /\ frames = <<>>
  /\ activeElement = "elsewhere"
  /\ clicked = <<>>
  /\ last = "Init"
  /\ radio = RadioInitial
  /\ mounted = TRUE

\* The Item `id` is mounted: it has an entry in state.items.
Mounted(id) == \E i \in Indices(state.items) : state.items[i + 1] = id

\* The disabled flags once the collection is `items`: an entry carries its
\* flag in its dataRef, which goes with the entry (kept FALSE here).
dataRefs(items) ==
  [id \in ItemIds |->
     disabled[id] /\ \E i \in Indices(items) : items[i + 1] = id]

\* dispatch(action)
Dispatch(action) ==
  /\ state' = stateReducer(state, action)
  /\ disabled' = dataRefs(state'.items)
  /\ last' = action.type
  /\ UNCHANGED <<radio, mounted>>
  /\ UNCHANGED <<timers, frames, activeElement, clicked>>

DispatchOpenMenu == Dispatch(Action("OpenMenu"))

DispatchCloseMenu == Dispatch(Action("CloseMenu"))

DispatchGoToItem ==
  \E focus \in Focus, id \in ItemIds :
    /\ focus # "Specific" => id = 1
    /\ Dispatch(GoToItemAction(focus, id))

DispatchSearch ==
  \E value \in Chars :
    /\ Len(state.searchQuery) < MaxQuery
    /\ Dispatch(SearchAction(value))

DispatchClearSearch == Dispatch(Action("ClearSearch"))

DispatchRegisterItem ==
  \E id \in ItemIds :
    /\ Len(state.items) < MaxItems
    /\ Dispatch(RegisterItemAction(id))

DispatchUnregisterItem ==
  \E id \in ItemIds : Dispatch(UnregisterItemAction(id))

\* useIsoMorphicEffect(() => { bag.current.disabled = disabled }, [bag, disabled])
\* run for an Item whose `disabled` prop changed.
SetDisabled ==
  \E id \in ItemIds :
    /\ Mounted(id)
    /\ disabled' = [disabled EXCEPT ![id] = ~disabled[id]]
    /\ last' = "SetDisabled"
    /\ UNCHANGED <<radio, mounted>>
    /\ UNCHANGED <<state, timers, frames, activeElement, clicked>>

Next ==
  \/ DispatchOpenMenu
  \/ DispatchCloseMenu
  \/ DispatchGoToItem
  \/ DispatchSearch
  \/ DispatchClearSearch
  \/ DispatchRegisterItem
  \/ DispatchUnregisterItem
  \/ SetDisabled

Spec == Init /\ [][Next]_vars

TypeOK ==
  /\ state.menuState \in {"Open", "Closed"}
  /\ Len(state.items) <= MaxItems
  /\ Len(state.searchQuery) <= MaxQuery

(***************************************************************************)
(* The components: Menu, Menu.Button, Menu.Items and Menu.Item around the  *)
(* reducer.  A step is one event handler, deferred callback or timer, run  *)
(* to completion together with the render that follows its dispatches.     *)
(***************************************************************************)
\* Most nextFrame callbacks pending at once.
MaxFrames == 2

\* event.key values delivered to Menu.Items: Keys.* and single characters.
PrintableKeys == {"h"}
ItemsKeys ==
  {" ", "Enter", "ArrowDown", "ArrowUp", "Home", "PageUp", "End", "PageDown",
   "Escape", "Tab", "Shift"} \cup PrintableKeys

\* event.key values delivered to Menu.Button.
ButtonKeys == {" ", "Enter", "ArrowDown", "ArrowUp", "Tab"}

\* Targets of a mousedown on the window.
MouseTargets == {"button", "items", "outsideFocusable", "outsidePlain"}

\* Menu.Items is rendered with visible = (menuState === Open): its Item
\* children are mounted only while the menu is open.
RECURSIVE MountItems(_, _)
\* The Items of the set `ids` mount in document order; each runs its effect
\* dispatch({ type: RegisterItem, id, dataRef: bag }).
MountItems(s, ids) ==
  IF ids = {} THEN s
  ELSE LET id == CHOOSE i \in ids : \A j \in ids : i <= j
       IN  MountItems(RegisterItem(s, RegisterItemAction(id)), ids \ {id})

\* Items that stay mounted, and registered, when the popup goes away.
UnmountItems_None(s) == s

RECURSIVE UnmountItems(_)
\* Every mounted Item unmounts; each runs its effect cleanup
\* dispatch({ type: UnregisterItem, id }).
UnmountItems(s) ==
  IF s.items = <<>> THEN s
  ELSE UnmountItems(UnregisterItem(s, UnregisterItemAction(s.items[1])))

\* The render after a handler took the state from `before` to `after`; `ids`
\* are the Items the application renders inside Menu.Items when it appears.
Render(before, after, ids) ==
  IF before.menuState = "Closed" /\ after.menuState = "Open"
  THEN MountItems(after, ids)
  ELSE IF after.menuState = "Closed" THEN UnmountItems(after)
  ELSE after

\* The bags after that render: useRef({ disabled }) gives a mounting Item a
\* bag holding its prop, not disabled when the popup appears (ItemSetDisabled
\* changes it later); an unmounted Item has no bag (kept FALSE here).
BagsAfterRender(after) ==
  IF after.menuState = "Closed" THEN [id \in ItemIds |-> FALSE] ELSE disabled

\* The popup surface leaves the document when the menu closes: focus inside
\* it is lost.
FocusAfterRender(after, el) ==
  IF after.menuState = "Closed" /\ el = "items" THEN "elsewhere" ELSE el

\* d.nextFrame(cb) on the disposables `owner`: "button" is Menu.Button's
\* useDisposables() instance, "free" a disposables() made for the one call.
nextFrame(queue, owner, cb) == Append(queue, [owner |-> owner, cb |-> cb])

\* The user moves focus (Tab, pointer) to the trigger, away from the menu, or
\* to the popup surface while it is shown.
UserFocus ==
  \E el \in {"button", "elsewhere", "items"} :
    /\ mounted
    /\ el = "items" => state.menuState = "Open"
    /\ el # activeElement
    /\ activeElement' = el
    /\ last' = "Other"
    /\ UNCHANGED <<radio, mounted>>
    /\ clicked' = <<>>
    /\ UNCHANGED <<state, disabled, timers, frames>>

\* The application adds an Item at the end of the open menu: the Item's
\* effect dispatches RegisterItem.
ItemMount ==
  \E id \in ItemIds, prop \in BOOLEAN :
    /\ state.menuState = "Open"
    /\ \A i \in Indices(state.items) : state.items[i + 1] < id
    /\ state' = RegisterItem(state, RegisterItemAction(id))
    /\ disabled' = [disabled EXCEPT ![id] = prop]
    /\ last' = "Other"
    /\ UNCHANGED <<radio, mounted>>
    /\ clicked' = <<>>
    /\ UNCHANGED <<timers, frames, activeElement>>

\* An Item unmounts while the menu is open: its effect cleanup dispatches
\* UnregisterItem.
ItemUnmount ==
  \E id \in ItemIds :
    /\ Mounted(id)
    /\ state' = UnregisterItem(state, UnregisterItemAction(id))
    /\ disabled' = [disabled EXCEPT ![id] = FALSE]
    /\ last' = "Other"
    /\ UNCHANGED <<radio, mounted>>
    /\ clicked' = <<>>
    /\ UNCHANGED <<timers, frames, activeElement>>

\* A mounted Item's `disabled` prop changes: bag.current.disabled = disabled.
ItemSetDisabled ==
  \E id \in ItemIds :
    /\ Mounted(id)
    /\ disabled' = [disabled EXCEPT ![id] = ~disabled[id]]
    /\ last' = "Other"
    /\ UNCHANGED <<radio, mounted>>
    /\ clicked' = <<>>
    /\ UNCHANGED <<state, timers, frames, activeElement>>

\* The mousedown handler that refocuses the trigger whatever the target is.
MenuMouseDownOn_FocusAlways(target) ==
  LET outside == state.menuState = "Open" /\ target \notin {"button", "items"}
      after   == IF outside THEN CloseMenu(state) ELSE state
      focused == IF outside THEN "button" ELSE activeElement
  IN  /\ mounted
      /\ target = "items" => state.menuState = "Open"
      /\ state' = Render(state, after, {})
      /\ disabled' = BagsAfterRender(after)
      /\ timers' = timers
      /\ activeElement' = FocusAfterRender(after, focused)
      /\ last' = "MenuMouseDown"
      /\ UNCHANGED <<radio, mounted>>
      /\ clicked' = <<>>
      /\ UNCHANGED frames

\* Menu: the window mousedown handler, for a pointer pressed on `target`.
MenuMouseDownOn(target) ==
  LET outside == state.menuState = "Open" /\ target \notin {"button", "items"}
      after   == IF outside THEN CloseMenu(state) ELSE state
      focused == IF outside /\ target = "outsidePlain" THEN "button"
                 ELSE activeElement
  IN  /\ mounted
      /\ target = "items" => state.menuState = "Open"
      /\ state' = Render(state, after, {})
      /\ disabled' = BagsAfterRender(after)
      /\ timers' = timers
      /\ activeElement' = FocusAfterRender(after, focused)
      /\ last' = "MenuMouseDown"
      /\ UNCHANGED <<radio, mounted>>
      /\ clicked' = <<>>
      /\ UNCHANGED frames

MenuMouseDown == \E target \in MouseTargets : MenuMouseDownOn(target)

\* handleKeyDown whose ArrowUp callback goes to the first item, too.
ButtonKeyDownOn_AlwaysFirst(key, ids) ==
  LET opens == key \in {" ", "Enter", "ArrowDown", "ArrowUp"}
      after == IF opens THEN OpenMenu(state) ELSE state
  IN  /\ mounted
      /\ activeElement = "button"
      /\ state' = Render(state, after, ids)
      /\ disabled' = BagsAfterRender(after)
      /\ frames' = IF opens THEN nextFrame(frames, "button", "focusItemsFirst")
                   ELSE frames
      /\ last' = "ButtonKeyDown"
      /\ UNCHANGED <<radio, mounted>>
      /\ clicked' = <<>>
      /\ UNCHANGED <<timers, activeElement>>

\* Menu.Button: handleKeyDown for `key`; the application renders the Items
\* `ids` if the popup appears.
ButtonKeyDownOn(key, ids) ==
  LET opens == key \in {" ", "Enter", "ArrowDown", "ArrowUp"}
      after == IF opens THEN OpenMenu(state) ELSE state
      cb    == IF key = "ArrowUp" THEN "focusItemsLast" ELSE "focusItemsFirst"
  IN  /\ mounted
      /\ activeElement = "button"
      /\ state' = Render(state, after, ids)
      /\ disabled' = BagsAfterRender(after)
      /\ frames' = IF opens THEN nextFrame(frames, "button", cb) ELSE frames
      /\ last' = "ButtonKeyDown"
      /\ UNCHANGED <<radio, mounted>>
      /\ clicked' = <<>>
      /\ UNCHANGED <<timers, activeElement>>

\* The sets of Items the application may render inside Menu.Items when the
\* popup appears; while the popup is shown its Items are those mounted.
Rendered == IF state.menuState = "Closed" THEN SUBSET ItemIds ELSE {{}}

ButtonKeyDown ==
  \E key \in ButtonKeys, ids \in Rendered :
    /\ Len(frames) < MaxFrames
    /\ ButtonKeyDownOn(key, ids)

\* handleClick without the test of props.disabled.
ButtonClickOn_IgnoreDisabled(ids, disabledProp) ==
  LET open  == state.menuState = "Open"
      after == IF open THEN CloseMenu(state) ELSE OpenMenu(state)
      cb    == IF open THEN "focusButton" ELSE "focusItems"
  IN  /\ mounted
      /\ state' = Render(state, after, ids)
      /\ disabled' = BagsAfterRender(after)
      /\ timers' = timers
      /\ frames' = nextFrame(frames, "button", cb)
      /\ activeElement' = FocusAfterRender(after, activeElement)
      /\ last' = "ButtonClick"
      /\ UNCHANGED <<radio, mounted>>
      /\ clicked' = <<>>

\* Menu.Button: handleClick on a button rendered with the `disabled` prop
\* `disabledProp`; the application renders the Items `ids` if the popup
\* appears.
ButtonClickOn(ids, disabledProp) ==
  LET open  == state.menuState = "Open"
      after == IF disabledProp THEN state
               ELSE IF open THEN CloseMenu(state) ELSE OpenMenu(state)
      cb    == IF open THEN "focusButton" ELSE "focusItems"
  IN  /\ mounted
      /\ state' = Render(state, after, ids)
      /\ disabled' = IF disabledProp THEN disabled ELSE BagsAfterRender(after)
      /\ timers' = timers
      /\ frames' = IF disabledProp THEN frames ELSE nextFrame(frames, "button", cb)
      /\ activeElement' = FocusAfterRender(after, activeElement)
      /\ last' = "ButtonClick"
      /\ UNCHANGED <<radio, mounted>>
      /\ clicked' = <<>>

ButtonClick ==
  \E ids \in Rendered, disabledProp \in BOOLEAN :
    /\ ~disabledProp => Len(frames) < MaxFrames
    /\ disabledProp => ids = {}
    /\ ButtonClickOn(ids, disabledProp)

\* handleClick that runs onClick twice.
ItemHandleClick_Twice(s, queue, id) ==
  IF disabled[id]
  THEN [state |-> s, frames |-> queue, clicked |-> <<>>]
  ELSE [state  |-> CloseMenu(s),
        frames |-> nextFrame(queue, "free", "focusButton"),
        clicked |-> <<id, id>>]

\* handleClick without the test of `disabled`.
ItemHandleClick_IgnoreDisabled(s, queue, id) ==
  [state  |-> CloseMenu(s),
   frames |-> nextFrame(queue, "free", "focusButton"),
   clicked |-> <<id>>]

\* Menu.Item: handleClick of the Item `id`, run on the state `s` with the
\* frames `queue`: the state, the frames and the Items whose onClick ran that
\* result.
ItemHandleClick(s, queue, id) ==
  IF disabled[id]
  THEN [state |-> s, frames |-> queue, clicked |-> <<>>]
  ELSE [state  |-> CloseMenu(s),
        frames |-> nextFrame(queue, "free", "focusButton"),
        clicked |-> <<id>>]

\* handleKeyDown whose Escape case schedules no refocus of the trigger.
ItemsHandleKeyDown_EscapeNoRefocus(key) ==
  LET same == [state |-> state, timers |-> 0, frames |-> frames, clicked |-> <<>>]
      goTo(f) == [same EXCEPT !.state = GoToItem(state, GoToItemAction(f, 0))]
  IN  CASE key = " " /\ state.searchQuery # <<>> ->
             [same EXCEPT !.state = Search(state, SearchAction(key))]
        [] key = "Enter" \/ (key = " " /\ state.searchQuery = <<>>) ->
             LET closed  == CloseMenu(state)
                 byClick == IF state.activeItemIndex # Null
                            THEN ItemHandleClick(closed, frames, ActiveItem(state))
                            ELSE [state |-> closed, frames |-> frames, clicked |-> <<>>]
             IN  [state   |-> byClick.state,
                  timers  |-> 0,
                  frames  |-> nextFrame(byClick.frames, "free", "focusButton"),
                  clicked |-> byClick.clicked]
        [] key = "ArrowDown" -> goTo("Next")
        [] key = "ArrowUp" -> goTo("Previous")
        [] key \in {"Home", "PageUp"} -> goTo("First")
        [] key \in {"End", "PageDown"} -> goTo("Last")
        [] key = "Escape" -> [same EXCEPT !.state = CloseMenu(state)]
        [] key = "Tab" -> same
        [] OTHER ->
             IF Len(key) = 1
             THEN [same EXCEPT !.state = Search(state, SearchAction(key)),
                               !.timers = 1]
             ELSE same

\* handleKeyDown without its first statement: the pending timer is left
\* to fire and a new one is set next to it.
ItemsHandleKeyDown_NoDispose(key) ==
  LET same == [state |-> state, timers |-> timers, frames |-> frames, clicked |-> <<>>]
      goTo(f) == [same EXCEPT !.state = GoToItem(state, GoToItemAction(f, 0))]
  IN  CASE key = " " /\ state.searchQuery # <<>> ->
             [same EXCEPT !.state = Search(state, SearchAction(key))]
        [] key = "Enter" \/ (key = " " /\ state.searchQuery = <<>>) ->
             LET closed  == CloseMenu(state)
                 byClick == IF state.activeItemIndex # Null
                            THEN ItemHandleClick(closed, frames, ActiveItem(state))
                            ELSE [state |-> closed, frames |-> frames, clicked |-> <<>>]
             IN  [state   |-> byClick.state,
                  timers  |-> timers,
                  frames  |-> nextFrame(byClick.frames, "free", "focusButton"),
                  clicked |-> byClick.clicked]
        [] key = "ArrowDown" -> goTo("Next")
        [] key = "ArrowUp" -> goTo("Previous")
        [] key \in {"Home", "PageUp"} -> goTo("First")
        [] key \in {"End", "PageDown"} -> goTo("Last")
        [] key = "Escape" ->
             [same EXCEPT !.state = CloseMenu(state),
                          !.frames = nextFrame(frames, "free", "focusButton")]
        [] key = "Tab" -> same
        [] OTHER ->
             IF Len(key) = 1
             THEN [same EXCEPT !.state = Search(state, SearchAction(key)),
                               !.timers = timers + 1]
             ELSE same

\* handleKeyDown whose Space case always falls through to Enter.
ItemsHandleKeyDown_SpaceIsEnter(key) ==
  LET same == [state |-> state, timers |-> 0, frames |-> frames, clicked |-> <<>>]
      goTo(f) == [same EXCEPT !.state = GoToItem(state, GoToItemAction(f, 0))]
  IN  CASE key = "Enter" \/ key = " " ->
             LET closed  == CloseMenu(state)
                 byClick == IF state.activeItemIndex # Null
                            THEN ItemHandleClick(closed, frames, ActiveItem(state))
                            ELSE [state |-> closed, frames |-> frames, clicked |-> <<>>]
             IN  [state   |-> byClick.state,
                  timers  |-> 0,
                  frames  |-> nextFrame(byClick.frames, "free", "focusButton"),
                  clicked |-> byClick.clicked]
        [] key = "ArrowDown" -> goTo("Next")
        [] key = "ArrowUp" -> goTo("Previous")
        [] key \in {"Home", "PageUp"} -> goTo("First")
        [] key \in {"End", "PageDown"} -> goTo("Last")
        [] key = "Escape" ->
             [same EXCEPT !.state = CloseMenu(state),
                          !.frames = nextFrame(frames, "free", "focusButton")]
        [] key = "Tab" -> same
        [] OTHER ->
             IF Len(key) = 1
             THEN [same EXCEPT !.state = Search(state, SearchAction(key)),
                               !.timers = 1]
             ELSE same

\* Menu.Items: handleKeyDown, after its first statement
\* searchDisposables.dispose(), which left no timer pending.
ItemsHandleKeyDown(key) ==
  LET same == [state |-> state, timers |-> 0, frames |-> frames, clicked |-> <<>>]
      goTo(f) == [same EXCEPT !.state = GoToItem(state, GoToItemAction(f, 0))]
  IN  CASE key = " " /\ state.searchQuery # <<>> ->
             [same EXCEPT !.state = Search(state, SearchAction(key))]
        [] key = "Enter" \/ (key = " " /\ state.searchQuery = <<>>) ->
             LET closed  == CloseMenu(state)
                 byClick == IF state.activeItemIndex # Null
                            THEN ItemHandleClick(closed, frames, ActiveItem(state))
                            ELSE [state |-> closed, frames |-> frames, clicked |-> <<>>]
             IN  [state   |-> byClick.state,
                  timers  |-> 0,
                  frames  |-> nextFrame(byClick.frames, "free", "focusButton"),
                  clicked |-> byClick.clicked]
        [] key = "ArrowDown" -> goTo("Next")
        [] key = "ArrowUp" -> goTo("Previous")
        [] key \in {"Home", "PageUp"} -> goTo("First")
        [] key \in {"End", "PageDown"} -> goTo("Last")
        [] key = "Escape" ->
             [same EXCEPT !.state = CloseMenu(state),
                          !.frames = nextFrame(frames, "free", "focusButton")]
        [] key = "Tab" -> same
        [] OTHER ->
             IF Len(key) = 1
             THEN [same EXCEPT !.state = Search(state, SearchAction(key)),
                               !.timers = 1]
             ELSE same

\* The key press whose Tab is not suppressed: focus leaves the popup surface.
ItemsKeyDownOn_TabLeaves(key) ==
  LET out == ItemsHandleKeyDown(key)
  IN  /\ state.menuState = "Open"
      /\ activeElement = "items"
      /\ state' = Render(state, out.state, {})
      /\ disabled' = BagsAfterRender(out.state)
      /\ timers' = out.timers
      /\ frames' = out.frames
      /\ activeElement' = IF key = "Tab" THEN "elsewhere"
                          ELSE FocusAfterRender(out.state, activeElement)
      /\ last' = "ItemsKeyDown"
      /\ UNCHANGED <<radio, mounted>>
      /\ clicked' = out.clicked

\* `key` is pressed while the popup surface is shown and holds focus.
ItemsKeyDownOn(key) ==
  LET out == ItemsHandleKeyDown(key)
  IN  /\ state.menuState = "Open"
      /\ activeElement = "items"
      /\ state' = Render(state, out.state, {})
      /\ disabled' = BagsAfterRender(out.state)
      /\ timers' = out.timers
      /\ frames' = out.frames
      /\ activeElement' = FocusAfterRender(out.state, activeElement)
      /\ last' = "ItemsKeyDown"
      /\ UNCHANGED <<radio, mounted>>
      /\ clicked' = out.clicked

ItemsKeyDown ==
  \E key \in ItemsKeys :
    /\ Len(ItemsHandleKeyDown(key).state.searchQuery) <= MaxQuery
    /\ Len(ItemsHandleKeyDown(key).frames) <= MaxFrames
    /\ ItemsKeyDownOn(key)

\* Menu.Item: the element of the Item `id` is clicked with the pointer.
ItemClickOn(id) ==
  LET out == ItemHandleClick(state, frames, id)
  IN  /\ Mounted(id)
      /\ state' = Render(state, out.state, {})
      /\ disabled' = BagsAfterRender(out.state)
      /\ timers' = timers
      /\ frames' = out.frames
      /\ activeElement' = FocusAfterRender(out.state, activeElement)
      /\ last' = "ItemClick"
      /\ UNCHANGED <<radio, mounted>>
      /\ clicked' = out.clicked

ItemClick ==
  \E id \in ItemIds :
    /\ Len(ItemHandleClick(state, frames, id).frames) <= MaxFrames
    /\ ItemClickOn(id)

\* active: the Item `id` is the active item.
ItemActive(id) ==
  IF state.activeItemIndex # Null THEN ActiveItem(state) = id ELSE FALSE

\* Menu.Item: handleFocus, handleMove (pointer or mouse move) and handleLeave
\* of the Item `id`.
ItemPointerOn(id, event) ==
  LET nothing  == GoToItemAction("Nothing", 0)
      specific == GoToItemAction("Specific", id)
      after ==
        CASE event = "focus" ->
               IF disabled[id] THEN GoToItem(state, nothing)
               ELSE GoToItem(state, specific)
          [] event = "move" ->
               IF disabled[id] \/ ItemActive(id) THEN state
               ELSE GoToItem(state, specific)
          [] event = "leave" ->
               IF disabled[id] \/ ~ItemActive(id) THEN state
               ELSE GoToItem(state, nothing)
  IN  /\ Mounted(id)
      /\ state' = after
      /\ last' = "Other"
      /\ UNCHANGED <<radio, mounted>>
      /\ clicked' = <<>>
      /\ UNCHANGED <<disabled, timers, frames, activeElement>>

ItemPointer ==
  \E id \in ItemIds, event \in {"focus", "move", "leave"} : ItemPointerOn(id, event)

\* The oldest pending nextFrame callback runs.  state.itemsRef.current is
\* the popup surface while it is shown and state.buttonRef.current the
\* trigger while the Menu is mounted; ref.current?.focus() on an empty ref
\* does nothing.
RunFrame ==
  /\ frames # <<>>
  /\ LET cb      == Head(frames).cb
         toItems == IF state.menuState = "Open" THEN "items" ELSE activeElement
         toButton == IF mounted THEN "button" ELSE activeElement
         after ==
           CASE cb = "focusItemsFirst" -> GoToItem(state, GoToItemAction("First", 0))
             [] cb = "focusItemsLast" -> GoToItem(state, GoToItemAction("Last", 0))
             [] OTHER -> state
     IN  /\ state' = after
         /\ activeElement' = IF cb = "focusButton" THEN toButton ELSE toItems
  /\ frames' = Tail(frames)
  /\ last' = "RunFrame"
  /\ UNCHANGED <<radio, mounted>>
  /\ clicked' = <<>>
  /\ UNCHANGED <<disabled, timers>>

\* The timeout set by searchDisposables.setTimeout(..., 350) fires.
SearchTimeout ==
  /\ timers > 0
  /\ timers' = timers - 1
  /\ state' = ClearSearch(state)
  /\ last' = "Other"
  /\ UNCHANGED <<radio, mounted>>
  /\ clicked' = <<>>
  /\ UNCHANGED <<disabled, frames, activeElement>>

\* The callbacks left pending when the disposables `owner` is disposed.
dispose(queue, owner) == SelectSeq(queue, LAMBDA f : f.owner # owner)

\* The application stops rendering the Menu: Menu.Button, Menu.Items and the
\* Items unmount and the reducer state is dropped (shown as the initial one).
\* The cleanup of useDisposables() disposes the Button's `d` and the Items'
\* searchDisposables; a disposables() made inside a handler is held by no
\* component and is not disposed.
MenuUnmount ==
  /\ mounted
  /\ mounted' = FALSE
  /\ state' = InitialState
  /\ disabled' = [id \in ItemIds |-> FALSE]
  /\ timers' = 0
  /\ frames' = dispose(frames, "button")
  /\ activeElement' = "elsewhere"
  /\ last' = "MenuUnmount"
  /\ clicked' = <<>>
  /\ UNCHANGED radio

NextUI ==
  \/ UserFocus
  \/ ItemMount
  \/ ItemUnmount
  \/ ItemSetDisabled
  \/ MenuMouseDown
  \/ ButtonKeyDown
  \/ ButtonClick
  \/ ItemsKeyDown
  \/ ItemClick
  \/ ItemPointer
  \/ RunFrame
  \/ SearchTimeout

SpecUI == Init /\ [][NextUI]_vars

\* The host runs a pending nextFrame callback at its next frame: a callback
\* that stays pending is run.
SpecUIFair == SpecUI /\ WF_vars(RunFrame)

\* The components of a Menu that the application may unmount at any time.
NextUIUnmount ==
  \/ NextUI
  \/ MenuUnmount

SpecUIUnmount == Init /\ [][NextUIUnmount]_vars

(***************************************************************************)
(* The RadioGroup on its own, rendered with ref() or with a selected value.*)
(***************************************************************************)
InitRadio ==
  /\ state = InitialState
  /\ disabled = [id \in ItemIds |-> FALSE]
  /\ timers = 0
  /\ frames = <<>>
  /\ activeElement = "elsewhere"
  /\ clicked = <<>>
  /\ last = "Init"
  /\ \E v \in RadioValues \cup {"undefined"} :
       radio = [RadioInitial EXCEPT !.value = v]
  /\ mounted = TRUE

NextRadio ==
  \/ RadioTab
  \/ RadioFocusButton
  \/ RadioClick
  \/ RadioKeyDown

SpecRadio == InitRadio /\ [][NextRadio]_vars

(***************************************************************************)
(* Properties of the reducer, checked under Spec.  A step that dispatches  *)
(* `action` is one that satisfies Dispatch(action).                        *)
(***************************************************************************)
\* C1 -- Identity-stable unregistration: when the active index points at an
\* item X, UnregisterItem(id) with id other than X's id leaves the active
\* index non-null and on X, at X's new position: one lower when the removed
\* entry stood before X, the same otherwise.
C1_IdentityStableUnregister ==
  [][\A id \in ItemIds :
       (/\ last' = "UnregisterItem"
        /\ state.activeItemIndex # Null
        /\ ActiveItem(state) # id
        /\ Dispatch(UnregisterItemAction(id)))
       => LET removed  == findIndex({i \in Indices(state.items) :
                                       state.items[i + 1] = id})
              expected == IF removed # NotFound /\ removed < state.activeItemIndex
                          THEN state.activeItemIndex - 1
                          ELSE state.activeItemIndex
          IN  /\ state'.activeItemIndex # Null
              /\ state'.activeItemIndex = expected
              /\ state'.activeItemIndex \in Indices(state'.items)
              /\ ActiveItem(state') = ActiveItem(state)]_vars

\* C1 witness: [.., C] with C active after an entry before it was removed,
\* as in [A, B, C] -> [B, C].
C1_Witness ==
  /\ last = "UnregisterItem"
  /\ state.items = <<2, 3>>
  /\ state.activeItemIndex = 1

\* C2 -- In every state reachable by dispatching actions, the active index
\* is null or an index of the collection: 0 <= i < items.length.
C2_ActiveIndexInRange ==
  \/ state.activeItemIndex = Null
  \/ /\ 0 <= state.activeItemIndex
     /\ state.activeItemIndex < Len(state.items)

\* C2 witness: an active index survived the removal of an entry.
C2_Witness ==
  /\ last = "UnregisterItem"
  /\ Len(state.items) = 2
  /\ state.activeItemIndex = 1

\* C3 -- Open and close are idempotent by value on every reachable state,
\* and OpenMenu on an Open state and CloseMenu on a Closed state return the
\* state unchanged.
C3_IdempotentOpenClose ==
  /\ [](/\ OpenMenu(OpenMenu(state)) = OpenMenu(state)
        /\ CloseMenu(CloseMenu(state)) = CloseMenu(state)
        /\ state.menuState = "Open" => OpenMenu(state) = state
        /\ state.menuState = "Closed" => CloseMenu(state) = state)
  /\ [][(last = "OpenMenu" /\ Dispatch(Action("OpenMenu"))) => state' = state]_vars
  /\ [][(last = "CloseMenu" /\ Dispatch(Action("CloseMenu"))) => state' = state]_vars

\* C3 witness: OpenMenu was dispatched on a menu with an active item and a
\* pending query (so the value compared is not the initial one).
C3_Witness ==
  /\ last = "OpenMenu"
  /\ state.menuState = "Open"
  /\ state.activeItemIndex # Null
  /\ state.searchQuery # <<>>

\* C4 as claimed -- After CloseMenu is dispatched in any reachable state the
\* state is Closed with a null active index, and the collection is unchanged.
C4_CloseResetsAlways ==
  [][Dispatch(Action("CloseMenu"))
     => /\ state'.menuState = "Closed"
        /\ state'.activeItemIndex = Null
        /\ state'.items = state.items]_vars

\* C4 -- After CloseMenu is dispatched the state is Closed and the collection
\* is unchanged; dispatched on an Open state it leaves the active index null,
\* dispatched on a Closed state it returns the state unchanged (the active
\* index included).
C4_CloseResetsWhenOpen ==
  [][Dispatch(Action("CloseMenu"))
     => /\ state'.menuState = "Closed"
        /\ state'.items = state.items
        /\ state.menuState = "Open" => state'.activeItemIndex = Null
        /\ state.menuState = "Closed" => state' = state]_vars

\* C4 witness: CloseMenu closed a menu holding three items and a query.
C4_Witness ==
  /\ last = "CloseMenu"
  /\ state.menuState = "Closed"
  /\ state.activeItemIndex = Null
  /\ Len(state.items) = 3
  /\ state.searchQuery # <<>>

\* C5 -- Wrap-around: with at least one enabled item, GoToItem(Next) from the
\* last enabled index makes the first enabled index active, and
\* GoToItem(Previous) from the first enabled index makes the last one active.
C5_WrapAround ==
  [][(last' = "GoToItem" /\ EnabledIndices(state.items) # {})
     => LET firstEnabled == findIndex(EnabledIndices(state.items))
            lastEnabled  == findLastIndex(EnabledIndices(state.items))
        IN  /\ (/\ state.activeItemIndex = lastEnabled
                /\ Dispatch(GoToItemAction("Next", 0)))
                 => state'.activeItemIndex = firstEnabled
            /\ (/\ state.activeItemIndex = firstEnabled
                /\ Dispatch(GoToItemAction("Previous", 0)))
                 => state'.activeItemIndex = lastEnabled]_vars

\* C5 witness: after a GoToItem the first of three items is active while the
\* last one is disabled (Next wraps to it from index 1).
C5_Witness ==
  /\ last = "GoToItem"
  /\ state.items = <<1, 2, 3>>
  /\ disabled = [id \in ItemIds |-> id = 3]
  /\ state.activeItemIndex = 0

\* C6 -- Disabled-skip: with at least one enabled item and any active index,
\* null included, the index GoToItem(Next) or GoToItem(Previous) produces
\* never refers to an item that is disabled at the time of the dispatch.
C6_DisabledSkip ==
  [][(/\ last' = "GoToItem"
      /\ EnabledIndices(state.items) # {}
      /\ \E f \in {"Next", "Previous"} : Dispatch(GoToItemAction(f, 0)))
     => \/ state'.activeItemIndex = Null
        \/ /\ state'.activeItemIndex \in Indices(state.items)
           /\ ~disabled[ActiveItem(state')]]_vars

\* C6 witness: a GoToItem landed on index 0 of three items, the two after it
\* disabled.
C6_Witness ==
  /\ last = "GoToItem"
  /\ state.items = <<1, 2, 3>>
  /\ disabled = [id \in ItemIds |-> id # 1]
  /\ state.activeItemIndex = 0

\* C7 -- Search(char) sets the query to the old query followed by char; when
\* some enabled item's text starts with the new query the lowest index of
\* such an item becomes active, otherwise the active index is unchanged; a
\* disabled item is never made active by Search.
C7_Search ==
  [][\A char \in Chars :
       (last' = "Search" /\ Dispatch(SearchAction(char)))
       => LET query == state.searchQuery \o <<char>>
              hits  == {i \in Indices(state.items) :
                          /\ startsWith(textValue(state.items[i + 1]), query)
                          /\ ~disabled[state.items[i + 1]]}
          IN  /\ state'.searchQuery = query
              /\ hits # {} => /\ state'.activeItemIndex \in hits
                              /\ \A i \in hits : state'.activeItemIndex <= i
              /\ hits = {} => state'.activeItemIndex = state.activeItemIndex
              /\ state'.activeItemIndex # state.activeItemIndex
                   => ~disabled[ActiveItem(state')]]_vars

\* C7 witness: the query grew to "hh", which matches nothing, and the item
\* found by "h" (the first of two entries starting with h) is still active.
C7_Witness ==
  /\ last = "Search"
  /\ state.searchQuery = <<"h", "h">>
  /\ state.items = <<1, 2, 2>>
  /\ state.activeItemIndex = 1
  /\ ~disabled[2]

\* C8 as claimed -- Search matching is case-insensitive: Search with an
\* upper-case character produces the active index that Search with the
\* corresponding lower-case character produces.
C8_SearchCaseInsensitive ==
  [][\A char \in Chars :
       (Dispatch(SearchAction(char)) /\ LowerChar(char) # char)
       => state'.activeItemIndex =
            Search(state, SearchAction(LowerChar(char))).activeItemIndex]_vars

(***************************************************************************)
(* Type-ahead on an open menu: the popup surface holds focus, the items    *)
(* Pickup, Home delivery and Dine in are mounted and enabled, and the user *)
(* types letters or pauses until the search timeout fires.                 *)
(***************************************************************************)
\* Most characters typed between two pauses.
MaxTyped == 3

\* The letters typed.
TypeAheadKeys == {"h", "o", "m", "d"}

\* The menu after a click on Menu.Button rendered the three Items and the
\* deferred callback focused Menu.Items.
InitTypeAhead ==
  /\ state = [InitialState EXCEPT !.menuState = "Open", !.items = <<1, 2, 3>>]
  /\ disabled = [id \in ItemIds |-> FALSE]
  /\ timers = 0
  /\ frames = <<>>
  /\ activeElement = "items"
  /\ clicked = <<>>
  /\ last = "Init"
  /\ radio = RadioInitial
  /\ mounted = TRUE

TypeAheadKeyDown ==
  \E key \in TypeAheadKeys :
    /\ Len(state.searchQuery) < MaxTyped
    /\ ItemsKeyDownOn(key)

NextTypeAhead ==
  \/ TypeAheadKeyDown
  \/ SearchTimeout

SpecTypeAhead == InitTypeAhead /\ [][NextTypeAhead]_vars

(***************************************************************************)
(* Properties of type-ahead.                                               *)
(***************************************************************************)
\* A key press on Menu.Items that dispatches Search: a single character, the
\* space only while the query is not empty.
SearchKeys == {key \in ItemsKeys : Len(key) = 1}

\* C9 as claimed -- Search debounce: after every key press on the open popup
\* surface that dispatches Search and leaves the query non-empty exactly one
\* clear timer is pending, and a non-empty query never persists with no clear
\* timer pending.
C9_SearchDebounce ==
  /\ [][\A key \in SearchKeys :
          (/\ ItemsKeyDownOn(key)
           /\ key = " " => state.searchQuery # <<>>
           /\ state'.searchQuery # <<>>)
          => timers' = 1]_vars
  /\ [](state.searchQuery # <<>> => timers = 1)

\* C10 -- Search accumulation: with Pickup, Home delivery and Dine in mounted
\* and enabled, o typed after h makes Home delivery active, m typed next
\* keeps it active, the search timeout empties the query and leaves the
\* active item alone, and d typed on the empty query makes Dine in active.
C10_SearchAccumulation ==
  /\ [][(ItemsKeyDownOn("o") /\ state.searchQuery = <<"h">>)
        => /\ state'.searchQuery = <<"h", "o">>
           /\ state'.activeItemIndex # Null
           /\ textContent[ActiveItem(state')] = textContent[2]]_vars
  /\ [][(ItemsKeyDownOn("m") /\ state.searchQuery = <<"h", "o">>)
        => /\ state'.searchQuery = <<"h", "o", "m">>
           /\ state'.activeItemIndex = state.activeItemIndex
           /\ textContent[ActiveItem(state')] = textContent[2]]_vars
  /\ [][SearchTimeout
        => /\ state'.searchQuery = <<>>
           /\ timers' = 0
           /\ state'.activeItemIndex = state.activeItemIndex]_vars
  /\ [][(ItemsKeyDownOn("d") /\ state.searchQuery = <<>>)
        => /\ state'.searchQuery = <<"d">>
           /\ state'.activeItemIndex # Null
           /\ textContent[ActiveItem(state')] = textContent[3]]_vars

\* C10 witness: h, o and m were typed without a pause and Home delivery is
\* active.
C10_Witness ==
  /\ last = "ItemsKeyDown"
  /\ state.searchQuery = <<"h", "o", "m">>
  /\ state.activeItemIndex = 1
  /\ timers = 1

\* The menu the type-ahead scenario starts from is one the components reach.
TypeAheadStartReached ==
  /\ state = [InitialState EXCEPT !.menuState = "Open", !.items = <<1, 2, 3>>]
  /\ disabled = [id \in ItemIds |-> FALSE]
  /\ timers = 0
  /\ frames = <<>>
  /\ activeElement = "items"

(***************************************************************************)
(* Properties of the components, checked under SpecUI.                     *)
(***************************************************************************)


\* C11 -- Outside click: while the menu is Open, a pointer-down on a target
\* inside neither the trigger nor the popup surface closes the menu (Closed,
\* no active item) and moves focus to the trigger if and only if the target
\* is not focusable (for a focusable target the handler leaves focus alone,
\* and focus held by the popup surface goes with the surface); a pointer-down
\* inside the trigger or the popup surface, or any pointer-down while Closed,
\* changes neither the state nor the focus.
C11_OutsideClick ==
  [][\A target \in MouseTargets :
       (last' = "MenuMouseDown" /\ MenuMouseDownOn(target))
       => IF state.menuState = "Open" /\ target \notin {"button", "items"}
          THEN /\ state'.menuState = "Closed"
               /\ state'.activeItemIndex = Null
               /\ target = "outsidePlain" => activeElement' = "button"
               /\ target = "outsideFocusable"
                    => activeElement' = IF activeElement = "items"
                                        THEN "elsewhere" ELSE activeElement
          ELSE /\ state' = state
               /\ activeElement' = activeElement]_vars

\* C11 witness: a pointer-down closed the menu while a search timer was
\* pending, and the trigger got focus.
C11_Witness ==
  /\ last = "MenuMouseDown"
  /\ state.menuState = "Closed"
  /\ state.searchQuery # <<>>
  /\ timers = 1
  /\ frames = <<>>
  /\ activeElement = "button"

\* C12 -- Keyboard open ordering: Enter, Space or ArrowDown on the trigger
\* leaves the menu Open in the same step and schedules, behind the callbacks
\* already pending, one that focuses the popup surface and dispatches
\* GoToItem(First); ArrowUp does the same with GoToItem(Last).  When that
\* callback runs on a menu that is still Open, the popup surface has focus
\* and the active index is the first (respectively last) non-disabled item,
\* or null if there is none.
C12_KeyboardOpen ==
  /\ [][\A key \in {" ", "Enter", "ArrowDown", "ArrowUp"}, ids \in SUBSET ItemIds :
          (last' = "ButtonKeyDown" /\ ButtonKeyDownOn(key, ids))
          => /\ state'.menuState = "Open"
             /\ state'.activeItemIndex = state.activeItemIndex
             /\ activeElement' = activeElement
             /\ frames' = Append(frames,
                  [owner |-> "button",
                   cb |-> IF key = "ArrowUp" THEN "focusItemsLast"
                          ELSE "focusItemsFirst"])]_vars
  /\ [][(/\ RunFrame
         /\ Head(frames).cb \in {"focusItemsFirst", "focusItemsLast"}
         /\ state.menuState = "Open")
        => LET enabled == EnabledIndices(state.items)
               target  == IF Head(frames).cb = "focusItemsFirst"
                          THEN findIndex(enabled) ELSE findLastIndex(enabled)
           IN  /\ state'.menuState = "Open"
               /\ activeElement' = "items"
               /\ state'.activeItemIndex = IF enabled = {} THEN Null ELSE target]_vars

\* C12 witness: the callback of a keyboard open ran and made the last item
\* active, the first item being disabled.
C12_Witness ==
  /\ last = "RunFrame"
  /\ state.menuState = "Open"
  /\ activeElement = "items"
  /\ state.items = <<1, 2, 3>>
  /\ disabled[1]
  /\ state.activeItemIndex = 2
  /\ frames = <<>>

\* The callbacks `after` are those of `before` followed by at least one more,
\* each of the added ones a refocus of the trigger.
RefocusScheduled(before, after) ==
  /\ Len(after) > Len(before)
  /\ SubSeq(after, 1, Len(before)) = before
  /\ \A i \in (Len(before) + 1)..Len(after) : after[i].cb = "focusButton"

\* C13 -- Item activation: a pointer click on an enabled item, or Enter on
\* the popup surface while an enabled item is active, leaves the menu Closed,
\* runs that item's onClick exactly once in the same step and leaves a refocus
\* of the trigger pending behind the callbacks already pending; that refocus,
\* when it runs, gives the trigger focus and runs no onClick.
C13_ItemActivation ==
  /\ [][\A id \in ItemIds :
          (last' = "ItemClick" /\ ~disabled[id] /\ ItemClickOn(id))
          => /\ state'.menuState = "Closed"
             /\ clicked' = <<id>>
             /\ RefocusScheduled(frames, frames')]_vars
  /\ [][(/\ last' = "ItemsKeyDown"
         /\ state.activeItemIndex # Null
         /\ ~disabled[ActiveItem(state)]
         /\ ItemsKeyDownOn("Enter"))
        => /\ state'.menuState = "Closed"
           /\ clicked' = <<ActiveItem(state)>>
           /\ RefocusScheduled(frames, frames')]_vars
  /\ [][(RunFrame /\ Head(frames).cb = "focusButton")
        => /\ activeElement' = "button"
           /\ clicked' = <<>>
           /\ state' = state]_vars

\* C13 witness: Enter activated the active item Home delivery; the refocus
\* callbacks of the item's handleClick and of handleKeyDown are pending.
C13_Witness ==
  /\ last = "ItemsKeyDown"
  /\ clicked = <<2>>
  /\ state.menuState = "Closed"
  /\ Len(frames) = 2
  /\ \A i \in 1..2 : frames[i].cb = "focusButton"

\* C14 -- Escape on the popup surface while Open leaves the menu Closed with
\* no active item, runs no onClick and leaves one more refocus of the trigger
\* pending; with that refocus pending, a callback that gives the trigger
\* focus eventually runs.
C14_Escape ==
  /\ [][(last' = "ItemsKeyDown" /\ ItemsKeyDownOn("Escape"))
        => /\ state'.menuState = "Closed"
           /\ state'.activeItemIndex = Null
           /\ clicked' = <<>>
           /\ frames' = Append(frames, [owner |-> "free", cb |-> "focusButton"])]_vars
  /\ [][(RunFrame /\ Head(frames).cb = "focusButton")
        => activeElement' = "button"]_vars
  /\ (/\ last = "ItemsKeyDown"
      /\ state.menuState = "Closed"
      /\ clicked = <<>>
      /\ frames # <<>>
      /\ frames[Len(frames)].cb = "focusButton")
       ~> (last = "RunFrame" /\ activeElement = "button")

\* C14 witness: Escape closed the menu while a query was typed; its refocus
\* is the one callback pending and the trigger does not have focus yet.
C14_Witness ==
  /\ last = "ItemsKeyDown"
  /\ state.menuState = "Closed"
  /\ state.searchQuery # <<>>
  /\ clicked = <<>>
  /\ frames = <<[owner |-> "free", cb |-> "focusButton"]>>
  /\ activeElement # "button"

(***************************************************************************)
(* Properties of the RadioGroup, checked under SpecRadio.                  *)
(***************************************************************************)
\* C15 -- RadioGroup click idempotence: a click on, or Space on, the option
\* that is already the selected value calls changeFn not at all and leaves
\* the value alone; the same activation from a different or empty selection
\* selects the option and calls changeFn once with its value; over any run of
\* consecutive activations of one option changeFn is called at most once.
C15_ClickIdempotence ==
  /\ [][\A v \in RadioValues :
          (\/ last' = "RadioClick" /\ RadioClickOn(v)
           \/ last' = "RadioKeyDown" /\ radio.focus = v /\ RadioKeyDownOn(" "))
          => /\ radio'.value = v
             /\ radio.value = v
                  => /\ radio'.changed = <<>>
                     /\ radio'.calls = radio.calls
                     /\ radio'.streak.calls = radio.streak.calls
             /\ radio.value # v
                  => /\ radio'.changed = <<v>>
                     /\ radio'.calls = radio.calls + 1
                     /\ radio'.streak.calls = 1]_vars
  /\ [](radio.streak.option # "" => radio.streak.calls <= 1)

\* C15 witness: Home delivery was clicked again after the click that
\* selected it; changeFn was called once over the run.
C15_Witness ==
  /\ last = "RadioClick"
  /\ radio.streak = [option |-> "home-delivery", calls |-> 1]
  /\ radio.changed = <<>>
  /\ radio.value = "home-delivery"
  /\ radio.calls = 1

\* C16 -- RadioGroup arrow navigation selects: ArrowDown or ArrowRight moves
\* focus from Pickup to Home delivery, from there to Dine in and from there
\* back to Pickup, ArrowUp or ArrowLeft the other way round; each press
\* selects the newly focused option and calls changeFn exactly once, with
\* that option's value.
C16_ArrowSelects ==
  [][LET after == [v \in RadioValues |->
                     CASE v = "pickup" -> "home-delivery"
                       [] v = "home-delivery" -> "dine-in"
                       [] v = "dine-in" -> "pickup"]
         before == [v \in RadioValues |->
                      CASE v = "pickup" -> "dine-in"
                        [] v = "home-delivery" -> "pickup"
                        [] v = "dine-in" -> "home-delivery"]
     IN  \A key \in RadioKeys \ {" "} :
           (last' = "RadioKeyDown" /\ RadioKeyDownOn(key))
           => /\ radio'.focus = IF key \in {"ArrowDown", "ArrowRight"}
                                THEN after[radio.focus] ELSE before[radio.focus]
              /\ radio'.value = radio'.focus
              /\ radio'.changed = <<radio'.focus>>
              /\ radio'.calls = radio.calls + 1]_vars

\* C16 witness: an arrow press selected Pickup as the third change, after
\* two other options had been selected.
C16_Witness ==
  /\ last = "RadioKeyDown"
  /\ radio.focus = "pickup"
  /\ radio.value = "pickup"
  /\ radio.changed = <<"pickup">>
  /\ radio.calls = 3

\* C17 -- RadioGroup focus does not select: Tab or Shift+Tab from a button
\* outside the group lands on the selected option, on the first option when
\* none is selected; from an option it lands outside the group; neither
\* changes the selected value nor calls changeFn.
C17_FocusDoesNotSelect ==
  [][\A shift \in BOOLEAN :
       (last' = "RadioTab" /\ RadioTabOn(shift))
       => /\ radio'.value = radio.value
          /\ radio'.changed = <<>>
          /\ radio'.calls = radio.calls
          /\ radio.focus \in {"Before", "After"}
               => radio'.focus = IF radio.value = "undefined" THEN "pickup"
                                 ELSE radio.value
          /\ radio.focus \in RadioValues
               => radio'.focus = IF shift THEN "Before" ELSE "After"]_vars

\* C17 witness: Shift+Tab from the After button landed on the selected
\* option Dine in after two changes.
C17_Witness ==
  /\ last = "RadioTab"
  /\ radio.focus = "dine-in"
  /\ radio.value = "dine-in"
  /\ radio.changed = <<>>
  /\ radio.calls = 2

(***************************************************************************)
(* Properties of the registry, checked under Spec.                         *)
(***************************************************************************)
\* C18 as claimed -- Duplicate registration is a no-op: RegisterItem with an
\* id that is already in the collection leaves the collection unchanged, and
\* in every reachable state no two entries of the collection share an id.
C18_DuplicateRegistrationNoOp ==
  /\ [][\A id \in ItemIds :
          (last' = "RegisterItem" /\ Mounted(id) /\ Dispatch(RegisterItemAction(id)))
          => state'.items = state.items]_vars
  /\ [](\A i, j \in Indices(state.items) :
          state.items[i + 1] = state.items[j + 1] => i = j)

\* C19 as claimed -- Unregistering the active item clears the active index:
\* when the active index points at the item with the id X, UnregisterItem(X)
\* removes that item from the collection and yields a null active index.
C19_UnregisterActiveClears ==
  [][\A id \in ItemIds :
       (/\ last' = "UnregisterItem"
        /\ state.activeItemIndex # Null
        /\ ActiveItem(state) = id
        /\ Dispatch(UnregisterItemAction(id)))
       => /\ state'.activeItemIndex = Null
          /\ state'.items = splice(state.items, state.activeItemIndex)]_vars

(***************************************************************************)
(* Properties of the deferred focus callbacks, checked under SpecUI and,   *)
(* for the unmount of the Menu, under SpecUIUnmount.                       *)
(***************************************************************************)
\* C20 as claimed -- No stacking of deferred focus work: at most one deferred
\* focus callback is pending at any time, and a callback never runs while a
\* callback scheduled after it is pending.
C20_NoStacking ==
  /\ [](Len(frames) <= 1)
  /\ [][RunFrame => Len(frames) = 1]_vars

\* C21 as claimed -- Deferred work is cancelled on unmount: once the Menu has
\* unmounted, no deferred focus callback and no search-clear timer of it
\* runs.
C21_CancelledOnUnmount ==
  [][~mounted => ~(RunFrame \/ SearchTimeout)]_vars

\* C22 as claimed -- Deferred work is cancelled when the state leaves the
\* state that scheduled it: the deferred GoToItem(First) or GoToItem(Last)
\* of a keyboard open does not run once the menu is Closed.
C22_CancelledOnClose ==
  [][(/\ last' = "RunFrame"
      /\ RunFrame
      /\ Head(frames).cb \in {"focusItemsFirst", "focusItemsLast"})
     => state.menuState = "Open"]_vars

(***************************************************************************)
(* Properties of the keys of the popup surface, checked under SpecUI.      *)
(***************************************************************************)
\* C23 -- Tab on the popup surface is suppressed: a Tab key press while the
\* menu is Open leaves menuState, the collection and the active index as
\* they were and leaves focus on the popup surface.
C23_TabSuppressed ==
  [][(last' = "ItemsKeyDown" /\ ItemsKeyDownOn("Tab"))
     => /\ state'.menuState = "Open"
        /\ state'.items = state.items
        /\ state'.activeItemIndex = state.activeItemIndex
        /\ activeElement' = "items"]_vars

\* C23 witness: with Home delivery active and the query h typed, a key press
\* that is no character left the menu Open, the item active, the query and
\* the focus in place and cancelled the search timer.
C23_Witness ==
  /\ last = "ItemsKeyDown"
  /\ state.menuState = "Open"
  /\ activeElement = "items"
  /\ state.searchQuery = <<"h">>
  /\ state.activeItemIndex # Null
  /\ ActiveItem(state) = 2
  /\ timers = 0
  /\ clicked = <<>>

(***************************************************************************)
(* Properties of GoToItem, ClearSearch and the resolver, checked under     *)
(* Spec.                                                                   *)
(***************************************************************************)
\* C24 -- GoToItem always leaves the query empty: in every reachable state
\* and for every GoToItem action, the state the reducer returns has an empty
\* query and the active index calculateActiveIndex gives; when that index is
\* the current one and the query is already empty it is the input state.
C24_GoToItemClearsQuery ==
  \A focus \in Focus, id \in ItemIds :
    LET action   == GoToItemAction(focus, id)
        resolved == calculateActiveIndex(action, state.items, state.activeItemIndex)
        after    == stateReducer(state, action)
    IN  /\ after.searchQuery = <<>>
        /\ after.activeItemIndex = resolved
        /\ after.items = state.items
        /\ after.menuState = state.menuState
        /\ (resolved = state.activeItemIndex /\ state.searchQuery = <<>>)
           => after = state

\* C24 witness: GoToItem left an empty query and an active item in a
\* collection of three with a disabled first item.
C24_Witness ==
  /\ last = "GoToItem"
  /\ state.searchQuery = <<>>
  /\ Len(state.items) = 3
  /\ disabled[state.items[1]]
  /\ state.activeItemIndex = 1

\* C25 -- ClearSearch sets the query to the empty string and leaves
\* menuState, the collection and the active index unchanged; when the query
\* is already empty it returns the input state.
C25_ClearSearch ==
  LET after == stateReducer(state, Action("ClearSearch"))
  IN  /\ after = [state EXCEPT !.searchQuery = <<>>]
      /\ after.searchQuery = <<>>
      /\ after.menuState = state.menuState
      /\ after.items = state.items
      /\ after.activeItemIndex = state.activeItemIndex
      /\ state.searchQuery = <<>> => after = state

\* C25 witness: ClearSearch emptied the query of an open menu of three items
\* with the second one active.
C25_Witness ==
  /\ last = "ClearSearch"
  /\ state.searchQuery = <<>>
  /\ state.menuState = "Open"
  /\ Len(state.items) = 3
  /\ state.activeItemIndex = 1

\* The keys for which handleKeyDown sets the search timer: a single character
\* other than the space.
TimerKeys == {key \in ItemsKeys : Len(key) = 1 /\ key # " "}

\* C26 -- The search timer is restarted, not stacked: at most one search
\* timer is pending at any time; a key press on the popup surface leaves no
\* timer pending but the one it sets itself; a timer appears only through a
\* key press; and once the timer has fired none is pending, so that the
\* timer that fires is the one the most recent key press started.
C26_TimerRestarted ==
  /\ [](timers <= 1)
  /\ [][\A key \in ItemsKeys :
          (last' = "ItemsKeyDown" /\ ItemsKeyDownOn(key))
          => timers' = IF key \in TimerKeys THEN 1 ELSE 0]_vars
  /\ [][timers' > timers => last' = "ItemsKeyDown"]_vars
  /\ [][SearchTimeout => (timers = 1 /\ timers' = 0)]_vars

\* C26 witness: a second letter was typed while the timer of the first was
\* pending, and one timer is pending.
C26_Witness ==
  /\ last = "ItemsKeyDown"
  /\ state.searchQuery = <<"h", "h">>
  /\ timers = 1

\* C27 -- Resolver tie-break: from a null active index GoToItem(Next) gives
\* the active index GoToItem(First) gives and GoToItem(Previous) the one
\* GoToItem(Last) gives, for every reachable collection and assignment of
\* disabled flags.
C27_TieBreak ==
  LET fromNull  == [state EXCEPT !.activeItemIndex = Null]
      index(f)  == stateReducer(fromNull, GoToItemAction(f, 0)).activeItemIndex
      resolve(f) == calculateActiveIndex(GoToItemAction(f, 0), state.items, Null)
  IN  /\ resolve("Next") = resolve("First")
      /\ resolve("Previous") = resolve("Last")
      /\ index("Next") = resolve("First")
      /\ index("First") = resolve("First")
      /\ index("Previous") = resolve("Last")
      /\ index("Last") = resolve("Last")

\* C27 witness: no item is active in a collection of three whose first and
\* last items are disabled, so that First and Last are not the ends.
C27_Witness ==
  /\ last = "GoToItem"
  /\ state.activeItemIndex = Null
  /\ Len(state.items) = 3
  /\ state.items[1] # state.items[3]
  /\ disabled[state.items[1]]
  /\ disabled[state.items[3]]
  /\ ~disabled[state.items[2]]

\* C28 -- Resolver First/Last: GoToItem(First) installs the lowest index of
\* an item that is not disabled and GoToItem(Last) the highest; when the
\* collection is empty or every item is disabled both install null.
C28_FirstLast ==
  LET enabled == {i \in Indices(state.items) : ~disabled[state.items[i + 1]]}
      first   == stateReducer(state, GoToItemAction("First", 0)).activeItemIndex
      lastI   == stateReducer(state, GoToItemAction("Last", 0)).activeItemIndex
  IN  IF enabled = {}
      THEN first = Null /\ lastI = Null
      ELSE /\ first \in enabled
           /\ lastI \in enabled
           /\ \A i \in enabled : first <= i /\ i <= lastI

\* C28 witness: GoToItem left the second of three items active, the highest
\* one that is not disabled.
C28_Witness ==
  /\ last = "GoToItem"
  /\ state.items = <<1, 2, 3>>
  /\ disabled = [id \in ItemIds |-> id = 3]
  /\ state.activeItemIndex = 1

\* C29 -- Resolver Specific: for an item of the collection, GoToItem with
\* Specific and the item's id installs the item's index when the item is not
\* disabled and leaves the active index as it was when the item is disabled.
C29_Specific ==
  \A id \in ItemIds :
    Mounted(id) =>
      LET idx   == CHOOSE i \in Indices(state.items) :
                     /\ state.items[i + 1] = id
                     /\ \A j \in Indices(state.items) : state.items[j + 1] = id => i <= j
          after == stateReducer(state, GoToItemAction("Specific", id)).activeItemIndex
      IN  /\ ~disabled[id] => after = idx
          /\ disabled[id] => after = state.activeItemIndex
          /\ (after # Null /\ after # state.activeItemIndex)
             => ~disabled[state.items[after + 1]]

\* C29 witness: the third of three items is active, as GoToItem with Specific
\* and its id leaves it, while the second item is disabled and stays
\* inactive.
C29_Witness ==
  /\ last = "GoToItem"
  /\ state.items = <<1, 2, 3>>
  /\ disabled = [id \in ItemIds |-> id = 2]
  /\ state.activeItemIndex = 2
  /\ state.menuState = "Open"

C32_DisabledNotActivated ==
  /\ [][\A id \in ItemIds :
          (last' = "ItemClick" /\ disabled[id] /\ ItemClickOn(id))
          => /\ state' = state
             /\ state'.menuState = "Open"
             /\ clicked' = <<>>
             /\ frames' = frames]_vars
  /\ [][\A i \in 1..Len(clicked') : ~disabled[clicked'[i]]]_vars
  /\ [][(/\ last' = "ItemsKeyDown"
         /\ state.activeItemIndex = Null
         /\ ItemsKeyDownOn("Enter"))
        => /\ state'.menuState = "Closed"
           /\ clicked' = <<>>]_vars

\* C32 witness: a disabled item was clicked while another item was active;
\* the menu is still Open with that item active.
C32_Witness ==
  /\ last = "ItemClick"
  /\ state.menuState = "Open"
  /\ clicked = <<>>
  /\ state.activeItemIndex # Null
  /\ ~disabled[ActiveItem(state)]
  /\ \E id \in ItemIds : Mounted(id) /\ disabled[id]

\* C33 -- Trigger click toggles: a click on an enabled trigger while Closed
\* dispatches only OpenMenu (the menu becomes Open with the query and the
\* active index as they were, no item active, and the collection holding
\* nothing but the Items the popup renders) and defers the focus of the
\* popup surface; a click while Open dispatches CloseMenu and leaves a
\* refocus of the trigger pending; a click on a disabled trigger changes no
\* state.
C33_TriggerClick ==
  /\ [][\A ids \in SUBSET ItemIds :
          (/\ last' = "ButtonClick"
           /\ state.menuState = "Closed"
           /\ ButtonClickOn(ids, FALSE))
          => /\ state' = MountItems([state EXCEPT !.menuState = "Open"], ids)
             /\ state'.menuState = "Open"
             /\ state'.searchQuery = state.searchQuery
             /\ state'.activeItemIndex = state.activeItemIndex
             /\ state'.activeItemIndex = Null
             /\ ids = {} => state'.items = state.items
             /\ frames' = Append(frames, [owner |-> "button", cb |-> "focusItems"])]_vars
  /\ [][(/\ last' = "ButtonClick"
         /\ state.menuState = "Open"
         /\ ButtonClickOn({}, FALSE))
        => /\ state'.menuState = "Closed"
           /\ state'.activeItemIndex = Null
           /\ RefocusScheduled(frames, frames')]_vars
  /\ [][(last' = "ButtonClick" /\ ButtonClickOn({}, TRUE))
        => UNCHANGED <<state, disabled, timers, frames, activeElement>>]_vars

\* C33 witness: a click on the trigger opened the menu and rendered three
\* Items; the focus of the popup surface is pending and no item is active.
C33_Witness ==
  /\ last = "ButtonClick"
  /\ state.menuState = "Open"
  /\ state.items = <<1, 2, 3>>
  /\ state.activeItemIndex = Null
  /\ frames = <<[owner |-> "button", cb |-> "focusItems"]>>

(***************************************************************************)
(* Frame conditions of the registry, checked under Spec.                   *)
(***************************************************************************)
\* C34 -- Registry frame conditions: in every reachable state RegisterItem
\* returns the state with the new entry appended at the end of the
\* collection and menuState, the query and the active index as they were;
\* UnregisterItem with an id that is not in the collection returns the
\* collection and the active index as they were; UnregisterItem with an id
\* of the collection returns the collection without one entry of that id,
\* the others in their order.
C34_RegistryFrame ==
  \A id \in ItemIds :
    LET registered   == stateReducer(state, RegisterItemAction(id))
        unregistered == stateReducer(state, UnregisterItemAction(id))
        n            == Len(state.items)
    IN  /\ Len(registered.items) = n + 1
        /\ registered.items[n + 1] = id
        /\ SubSeq(registered.items, 1, n) = state.items
        /\ registered.menuState = state.menuState
        /\ registered.searchQuery = state.searchQuery
        /\ registered.activeItemIndex = state.activeItemIndex
        /\ ~Mounted(id) =>
             /\ unregistered.items = state.items
             /\ unregistered.activeItemIndex = state.activeItemIndex
             /\ unregistered = state
        /\ Mounted(id) =>
             \E k \in 1..n :
               /\ state.items[k] = id
               /\ unregistered.items =
                    SubSeq(state.items, 1, k - 1) \o SubSeq(state.items, k + 1, n)

\* C34 witness: the entry 1 was registered behind the entry 2 while 2 was
\* active in an open menu with a query typed.
C34_Witness ==
  /\ last = "RegisterItem"
  /\ state.items = <<2, 1>>
  /\ state.activeItemIndex = 0
  /\ state.menuState = "Open"
  /\ state.searchQuery # <<>>

=============================================================================
